---------------------------- MODULE Spec2Model ----------------------------
(***************************************************************************)
(* Model of the collision engine of perfect-collisions (src/main.rs,       *)
(* src/object.rs, src/geometry.rs).                                        *)
(*                                                                         *)
(* Numbers.  The program computes in f32.  Here every quantity lives on an *)
(* integer lattice: one time unit is 0.0005 s, one length unit is 0.0005,  *)
(* so a velocity of 1 is one length unit per time unit (1.0 per second).   *)
(* A quotient is evaluated as one exact fraction and rounded once to the   *)
(* lattice (Rnd).  A division by zero is given its IEEE-754 outcome: the   *)
(* infinities and NaNs it produces make every later comparison false.      *)
(* Vec2 is a pair <<x, y>>.                                                *)
(***************************************************************************)
EXTENDS Integers, Sequences, FiniteSets, TLC

(***************************************************************************)
(* Bounds of the model.                                                    *)
(***************************************************************************)
MaxObjects == 2
\* the clock stops here
MaxTime == 120

(***************************************************************************)
(* Program constants, in lattice units.                                    *)
(***************************************************************************)
\* 0.001 added to time_elapsed in update_objects (main.rs:217)
TimeEps == 2
\* 0.005, the positional nudge of handle_collision (main.rs:346)
NudgeLen == 10
\* the collision count above which a body is dropped (main.rs:209)
CollidedLimit == 100

None == <<>>
Some(x) == <<x>>

(***************************************************************************)
(* Arithmetic helpers.                                                     *)
(***************************************************************************)
Abs(a) == IF a < 0 THEN -a ELSE a
Sgn(a) == IF a < 0 THEN -1 ELSE IF a > 0 THEN 1 ELSE 0
Min2(a, b) == IF a <= b THEN a ELSE b
Max2(a, b) == IF a >= b THEN a ELSE b

\* f32 division a / b for b # 0: the exact quotient rounded to the nearest
\* lattice value (ties away from zero).
Rnd(a, b) == Sgn(a) * Sgn(b) * ((2 * Abs(a) + Abs(b)) \div (2 * Abs(b)))

\* f32 sqrt on the lattice: the largest r with r * r <= n.
\* Found bit by bit from the highest, for n < 2^32.
RECURSIVE SqrtBit(_, _, _)
SqrtBit(n, r, bit) ==
    IF bit = 0 THEN r
    ELSE IF (r + bit) * (r + bit) <= n THEN SqrtBit(n, r + bit, bit \div 2)
    ELSE SqrtBit(n, r, bit \div 2)
ISqrt(n) == SqrtBit(n, 0, 32768)

VAdd(a, b) == <<a[1] + b[1], a[2] + b[2]>>
VSub(a, b) == <<a[1] - b[1], a[2] - b[2]>>
VScale(a, k) == <<a[1] * k, a[2] * k>>
VNeg(a) == <<-a[1], -a[2]>>
Dot(a, b) == a[1] * b[1] + a[2] * b[2]
\* glam's perp_dot: the z component of the cross product
PerpDot(a, b) == a[1] * b[2] - a[2] * b[1]
\* glam's Vec2::perp: a rotation by 90 degrees
Perp(a) == <<-a[2], a[1]>>
LengthSquared(a) == Dot(a, a)
ZERO == <<0, 0>>

(***************************************************************************)
(* geometry.rs: rotate_rad.  The model's angles are whole quarter turns,   *)
(* the rotations that map the lattice onto itself.                         *)
(***************************************************************************)
rotate_rad(p, angle) ==
    CASE angle % 4 = 0 -> p
      [] angle % 4 = 1 -> <<-p[2], p[1]>>
      [] angle % 4 = 2 -> <<-p[1], -p[2]>>
      [] OTHER -> <<p[2], -p[1]>>

(***************************************************************************)
(* Sequence helpers: Rust's stable sort_by, dedup, min.                    *)
(***************************************************************************)
\* the value of a `let` binding: the element of a singleton
The(S) == CHOOSE x \in S : TRUE

\* the first comparator of convex_hull: by y, then by x
YXLess(a, b) == IF a[2] = b[2] THEN a[1] < b[1] ELSE a[2] < b[2]

\* the second comparator of convex_hull: by angle() about p0.  Every a - p0
\* has an angle in [0, pi), p0 being the lowest, leftmost point.
AngleLess(a, b, p0) ==
    PerpDot(<<a[1] - p0[1], a[2] - p0[2]>>, <<b[1] - p0[1], b[2] - p0[2]>>) > 0

\* the comparator in use: "yx", or "angle" about p0
PointLess(a, b, order, p0) ==
    IF order = "yx" THEN YXLess(a, b) ELSE AngleLess(a, b, p0)

\* e inserted into the sorted sequence t after every element not greater
InsertSorted(t, e, order, p0) ==
    LET pos == CHOOSE k \in 1..(Len(t) + 1) :
                   /\ (k = Len(t) + 1 \/ PointLess(e, t[k], order, p0))
                   /\ \A m \in 1..(k - 1) : ~PointLess(e, t[m], order, p0)
    IN  SubSeq(t, 1, pos - 1) \o <<e>> \o SubSeq(t, pos, Len(t))

StableSort(s, order, p0) ==
    LET f[k \in 0..Len(s)] ==
            IF k = 0 THEN <<>>
            ELSE The({InsertSorted(t, s[k], order, p0) : t \in {f[k - 1]}})
    IN  f[Len(s)]

\* Vec::dedup: consecutive equal elements collapse to the first
Dedup(s) ==
    LET f[k \in 0..Len(s)] ==
            IF k = 0 THEN <<>>
            ELSE IF k > 1 /\ s[k] = s[k - 1] THEN f[k - 1]
            ELSE Append(f[k - 1], s[k])
    IN  f[Len(s)]

SeqToSet(s) == {s[k] : k \in 1..Len(s)}

(***************************************************************************)
(* geometry.rs: convex_hull (Graham scan).                                 *)
(***************************************************************************)
\* mutant of AngleNotPositive: the test is angle_between(u, w) < 0.
AngleNotPositive_Strict(u, w) == PerpDot(u, w) < 0

\* angle_between(u, w) <= 0.: the signed angle from u to w is negative
\* (clockwise), or zero (same direction).  Opposite directions give +pi.
AngleNotPositive(u, w) ==
    \/ PerpDot(u, w) < 0
    \/ (PerpDot(u, w) = 0 /\ Dot(u, w) >= 0)

\* the scan of one point: pop while the turn is not strictly left, then push
RECURSIVE ScanPush(_, _)
ScanPush(stack, point) ==
    IF /\ Len(stack) > 1
       /\ AngleNotPositive(VSub(stack[Len(stack)], stack[Len(stack) - 1]),
                           VSub(point, stack[Len(stack) - 1]))
    THEN The({ScanPush(popped, point) :
                 popped \in {SubSeq(stack, 1, Len(stack) - 1)}})
    ELSE Append(stack, point)

\* the loop over the sorted points (geometry.rs:40-49)
Scan(points) ==
    LET scan[k \in 0..Len(points)] ==
            IF k = 0 THEN <<>>
            ELSE The({ScanPush(stack, points[k]) : stack \in {scan[k - 1]}})
    IN  scan[Len(points)]

\* points[0] stays in front, the rest is sorted by angle about it
\* (geometry.rs:32-38)
SortByAngle(points) ==
    <<points[1]>> \o StableSort(Tail(points), "angle", points[1])

\* sort by y then x, dedup, sort by angle, scan: each statement works on
\* the value the one before it left
convex_hull(points) ==
    The({Scan(by_angle) :
         by_angle \in {SortByAngle(unique) :
         unique \in {Dedup(sorted) :
         sorted \in {StableSort(input, "yx", ZERO) : input \in {points}}}}})


(***************************************************************************)
(* object.rs: Object.  A body is a record; `id` is a ghost field naming    *)
(* the body across removals from the registry.  `collided` is the          *)
(* collision count that main.rs reads and writes (main.rs:209, 343).       *)
(***************************************************************************)
Object_new(id, position, velocity, rotation, shape) ==
    [ id |-> id,
      mass |-> 1,
      position |-> position,
      velocity |-> velocity,
      acceleration |-> ZERO,
      rotation |-> rotation,
      shape |-> shape,
      cur_time |-> 0,
      updated |-> 0,
      collided |-> 0 ]

\* mutant of UpdateAllowed: the assertion tolerates a step back of 0.001 s
UpdateAllowed_Tolerant(o, target_time) == target_time >= o.cur_time - TimeEps

\* the assertion of Object::update
UpdateAllowed(o, target_time) == target_time >= o.cur_time

\* mutant of Object_update: the stamp is not incremented
Object_update_NoStamp(o, target_time) ==
    LET dt == target_time - o.cur_time
    IN  [o EXCEPT !.position = VAdd(o.position, VScale(o.velocity, dt)),
                  !.velocity = VAdd(o.velocity, VScale(o.acceleration, dt)),
                  !.cur_time = o.cur_time + dt]

\* Object::update past its assertion
Object_update(o, target_time) ==
    LET dt == target_time - o.cur_time
    IN  [o EXCEPT !.position = VAdd(o.position, VScale(o.velocity, dt)),
                  !.velocity = VAdd(o.velocity, VScale(o.acceleration, dt)),
                  !.cur_time = o.cur_time + dt,
                  !.updated = o.updated + 1]

\* the world-space vertices of a body whose centre is at `position`
WorldPoints(o, position) ==
    [k \in 1..Len(o.shape) |-> VAdd(rotate_rad(o.shape[k], o.rotation), position)]

(***************************************************************************)
(* main.rs: TraversedVolume::from_object and the macro compute_x_bounds.   *)
(***************************************************************************)
TraversedVolume(o, target_time) ==
    LET future_object == Object_update(o, target_time)
    IN  convex_hull(WorldPoints(o, o.position)
                    \o WorldPoints(o, future_object.position))

SetMin(S) == CHOOSE x \in S : \A y \in S : x <= y
SetMax(S) == CHOOSE x \in S : \A y \in S : x >= y

\* min and max of the x coordinates (main.rs:243-245)
Extent(x_s) == <<SetMin(x_s), SetMax(x_s)>>

XCoordinates(points) == {points[k][1] : k \in 1..Len(points)}

compute_x_bounds(o, target_time) ==
    The({Extent(x_s) :
         x_s \in {XCoordinates(volume) :
         volume \in {TraversedVolume(o, target_time)}}})

(***************************************************************************)
(* main.rs: the two BTreeSets of update_collisions and their range query.  *)
(* An entry is a triple; the sets order triples lexicographically.         *)
(***************************************************************************)
TripleLess(a, b) ==
    \/ a[1] < b[1]
    \/ (a[1] = b[1] /\ a[2] < b[2])
    \/ (a[1] = b[1] /\ a[2] = b[2] /\ a[3] < b[3])

\* the elements of a finite set of triples in ascending order
RECURSIVE SortedTriples(_)
SortedTriples(S) ==
    IF S = {} THEN <<>>
    ELSE The({<<m>> \o SortedTriples(S \ {m}) :
                 m \in {x \in S : \A y \in S \ {x} : TripleLess(x, y)}})

\* BTreeSet::range(lo..hi): lo inclusive, hi exclusive, in ascending order
Range(bt, lo, hi) ==
    The({SortedTriples(within) :
         within \in {{e \in bt : ~TripleLess(e, lo) /\ TripleLess(e, hi)}}})

\* the candidate list of body `bound[3]` (main.rs:261-269, 293-300)
Candidates(left_bt, right_bt, bound) ==
    The({[k \in 1..Len(l) |-> l[k][3]] \o [k \in 1..Len(r) |-> r[k][3]] :
         l \in {Range(left_bt, bound, <<bound[2], 0, 0>>)},
         r \in {Range(right_bt, bound, <<bound[2], 0, 0>>)}})

Mirror(b) == <<b[2], b[1], b[3]>>

(***************************************************************************)
(* main.rs: CollisionInfo and its derived lexicographic order.             *)
(***************************************************************************)
InfoKey(c) ==
    <<c.time, c.object_1, c.object_1_col_stamp, c.point_1,
      c.object_2, c.object_2_col_stamp, c.line_2>>

RECURSIVE KeyLess(_, _, _)
KeyLess(a, b, k) ==
    IF k > Len(a) THEN FALSE
    ELSE IF a[k] # b[k] THEN a[k] < b[k]
    ELSE KeyLess(a, b, k + 1)

InfoLess(c, d) == KeyLess(InfoKey(c), InfoKey(d), 1)

(***************************************************************************)
(* main.rs: check_collision.                                               *)
(***************************************************************************)
\* mutant of InWindow: no upper end
InWindow_Unbounded(time, cur_time, horizon) == time > cur_time

\* the time window of the closure `check` (main.rs:463)
InWindow(time, cur_time, horizon) == time > cur_time /\ time < horizon

\* the closure `check`: the time at which the point p, moving at v, meets
\* the line through a and b within the segment's x-extent.  A vertical edge
\* (b.x = a.x), a vertical ray (v.x = 0) and parallel slopes divide by zero:
\* the intercept is then NaN or infinite and no comparison succeeds.
check(p, v, a, b, cur_time, horizon) ==
    IF b[1] = a[1] \/ v[1] = 0 THEN None
    ELSE LET dx == b[1] - a[1]
             dy == b[2] - a[2]
             \* (slope_1 - slope_2) * dx * v.x
             den == dy * v[1] - v[2] * dx
             \* (y_2 - y_1) * dx * v.x
             num == (p[2] - a[2]) * dx * v[1] - p[1] * v[2] * dx
                    + a[1] * dy * v[1]
         IN  IF den = 0 THEN None
             ELSE LET intercept == Rnd(num, den)
                      time == Rnd(intercept - p[1], v[1]) + cur_time
                  IN  IF /\ intercept >= Min2(a[1], b[1])
                         /\ intercept <= Max2(a[1], b[1])
                         /\ InWindow(time, cur_time, horizon)
                      THEN Some(time)
                      ELSE None

\* the fold `*cur_answer = (*cur_answer).min(candidate)` from None
\* (main.rs:488-493): the least event found, None if there is none
Earliest(found) ==
    IF found = {} THEN None
    ELSE Some(CHOOSE c \in found : \A d \in found : ~InfoLess(d, c))

\* mutant of check_collision: the velocity of the other body is not
\* subtracted, the sharp body moves at its own velocity past fixed edges
check_collision_AbsoluteVelocity(objs, sharp_obj_id, other_obj_id, horizon) ==
    LET sharp_0 == objs[sharp_obj_id]
        other_0 == objs[other_obj_id]
        cur_time == Max2(sharp_0.cur_time, other_0.cur_time)
        sharp_pos == VAdd(sharp_0.position,
                          VScale(sharp_0.velocity, cur_time - sharp_0.cur_time))
        other_pos == VAdd(other_0.position,
                          VScale(other_0.velocity, cur_time - other_0.cur_time))
    IN  The({
          LET n == Len(other_obj_points)
              hit(i, j) ==
                  check(sharp_obj_points[i], sharp_0.velocity,
                        other_obj_points[j], other_obj_points[(j % n) + 1],
                        cur_time, horizon)
              candidate(i, j) ==
                  [ time |-> hit(i, j)[1],
                    object_1 |-> sharp_obj_id,
                    object_1_col_stamp |-> sharp_0.updated,
                    point_1 |-> i,
                    object_2 |-> other_obj_id,
                    object_2_col_stamp |-> other_0.updated,
                    line_2 |-> j ]
          IN  The({Earliest(found) :
                   found \in {{candidate(pr[1], pr[2]) :
                       pr \in {q \in (1..Len(sharp_obj_points)) \X (1..n) :
                                 hit(q[1], q[2]) # None}}}}) :
          sharp_obj_points \in {WorldPoints(sharp_0, sharp_pos)},
          other_obj_points \in {WorldPoints(other_0, other_pos)}})

check_collision(objs, sharp_obj_id, other_obj_id, horizon) ==
    LET sharp_0 == objs[sharp_obj_id]
        other_0 == objs[other_obj_id]
        cur_time == Max2(sharp_0.cur_time, other_0.cur_time)
        sharp_pos == VAdd(sharp_0.position,
                          VScale(sharp_0.velocity, cur_time - sharp_0.cur_time))
        other_pos == VAdd(other_0.position,
                          VScale(other_0.velocity, cur_time - other_0.cur_time))
        sharp_vel == VSub(sharp_0.velocity, other_0.velocity)
    IN  The({
          LET n == Len(other_obj_points)
              hit(i, j) ==
                  check(sharp_obj_points[i], sharp_vel, other_obj_points[j],
                        other_obj_points[(j % n) + 1], cur_time, horizon)
              candidate(i, j) ==
                  [ time |-> hit(i, j)[1],
                    object_1 |-> sharp_obj_id,
                    object_1_col_stamp |-> sharp_0.updated,
                    point_1 |-> i,
                    object_2 |-> other_obj_id,
                    object_2_col_stamp |-> other_0.updated,
                    line_2 |-> j ]
          IN  The({Earliest(found) :
                   found \in {{candidate(pr[1], pr[2]) :
                       pr \in {q \in (1..Len(sharp_obj_points)) \X (1..n) :
                                 hit(q[1], q[2]) # None}}}}) :
          sharp_obj_points \in {WorldPoints(sharp_0, sharp_pos)},
          other_obj_points \in {WorldPoints(other_0, other_pos)}})

(***************************************************************************)
(* main.rs: handle_collision.                                              *)
(***************************************************************************)
\* mutant of IsStale: the stamps are compared with > instead of !=
IsStale_Greater(objs, col_info) ==
    \/ col_info.object_1_col_stamp > objs[col_info.object_1].updated
    \/ col_info.object_2_col_stamp > objs[col_info.object_2].updated

\* the staleness test (main.rs:317)
IsStale(objs, col_info) ==
    \/ col_info.object_1_col_stamp # objs[col_info.object_1].updated
    \/ col_info.object_2_col_stamp # objs[col_info.object_2].updated

\* perp of the struck edge, before normalize (main.rs:324-327)
EdgePerp(other_obj, line_2) ==
    LET n == Len(other_obj.shape)
        col_line_a == rotate_rad(other_obj.shape[line_2], other_obj.rotation)
        col_line_b == rotate_rad(other_obj.shape[(line_2 % n) + 1],
                                 other_obj.rotation)
    IN  Perp(VSub(col_line_a, col_line_b))

\* mutant of ImpulseOver: the factor 2 of the elastic impulse is dropped
ImpulseOver_Inelastic(rel_velocity, w, mass_self, mass_peer) ==
    LET den == (mass_self + mass_peer) * LengthSquared(w)
        k == -1 * Dot(rel_velocity, w) * mass_peer
    IN  <<Rnd(k * w[1], den), Rnd(k * w[2], den)>>

\* mutant of ImpulseOver: the impulse is divided by 2 instead of by
\* 1/mass_self + 1/mass_peer
ImpulseOver_UnitMasses(rel_velocity, w, mass_self, mass_peer) ==
    LET den == 2 * mass_self * LengthSquared(w)
        k == -2 * Dot(rel_velocity, w)
    IN  <<Rnd(k * w[1], den), Rnd(k * w[2], den)>>

\* impulse * normal / mass_self, as one fraction: with normal = w / |w| and
\* impulse = -2 (rel . normal) / (1/mass_self + 1/mass_peer) this is
\* -2 (rel . w) w mass_peer / ((mass_self + mass_peer) |w|^2)
ImpulseOver(rel_velocity, w, mass_self, mass_peer) ==
    LET den == (mass_self + mass_peer) * LengthSquared(w)
        k == -2 * Dot(rel_velocity, w) * mass_peer
    IN  <<Rnd(k * w[1], den), Rnd(k * w[2], den)>>

\* normal * 0.005
Nudge(w) ==
    LET len == ISqrt(LengthSquared(w))
    IN  <<Rnd(w[1] * NudgeLen, len), Rnd(w[2] * NudgeLen, len)>>

\* the registry after a valid event is applied (main.rs:321-349)
Resolve(objs, col_info) ==
    LET sharp_obj == objs[col_info.object_1]
        other_obj == objs[col_info.object_2]
        w == EdgePerp(other_obj, col_info.line_2)
        rel_velocity == VSub(sharp_obj.velocity, other_obj.velocity)
        s1 == Object_update(sharp_obj, col_info.time)
        o1 == Object_update(other_obj, col_info.time)
        s2 == [s1 EXCEPT
                 !.velocity = VAdd(s1.velocity,
                     ImpulseOver(rel_velocity, w, s1.mass, o1.mass)),
                 !.collided = s1.collided + 1,
                 !.position = VAdd(s1.position, Nudge(w))]
        o2 == [o1 EXCEPT
                 !.velocity = VSub(o1.velocity,
                     ImpulseOver(rel_velocity, w, o1.mass, s1.mass)),
                 !.collided = o1.collided + 1,
                 !.position = VSub(o1.position, Nudge(w))]
    IN  [objs EXCEPT ![col_info.object_1] = s2, ![col_info.object_2] = o2]

\* mutant of handle_collision: a valid event advances every body of the
\* registry to its time
handle_collision_AdvanceAll(objs, col_info) ==
    IF IsStale(objs, col_info) THEN <<FALSE, objs>>
    ELSE <<TRUE, [k \in 1..Len(objs) |->
                    IF k \in {col_info.object_1, col_info.object_2}
                    THEN Resolve(objs, col_info)[k]
                    ELSE Object_update(objs[k], col_info.time)]>>

\* handle_collision: <<returned flag, registry afterwards>>
handle_collision(objs, col_info) ==
    IF IsStale(objs, col_info) THEN <<FALSE, objs>>
    ELSE <<TRUE, Resolve(objs, col_info)>>

\* total_energy: the sum of 0.5 * mass * |velocity|^2
RECURSIVE EnergySum(_, _)
EnergySum(objs, k) ==
    IF k = 0 THEN 0
    ELSE Rnd(objs[k].mass * LengthSquared(objs[k].velocity), 2)
         + EnergySum(objs, k - 1)

total_energy(objs) == EnergySum(objs, Len(objs))

(***************************************************************************)
(* The inputs of the model.                                                *)
(***************************************************************************)
\* frame times handed to App::update: half a millisecond, 20 ms
DtSet == {1, 40}

\* Shape::from_polygon(4) and Shape::from_polygon(3), circumradius 0.05
Diamond == << <<100, 0>>, <<0, 100>>, <<-100, 0>>, <<0, -100>> >>
Triangle == << <<100, 0>>, <<-50, 87>>, <<-50, -87>> >>
\* Shape::from_polygon(4) turned by an eighth of a turn: its sides are
\* parallel to the axes.  The model's rotations being quarter turns, the
\* turned vertices are given as the shape.
AxisSquare == << <<71, 71>>, <<-71, 71>>, <<-71, -71>>, <<71, -71>> >>

\* what a right click can spawn: the cursor's world position and the random
\* velocity, rotation and shape of update_objects (main.rs:221-226)
SpawnRequests ==
    { [position |-> <<0, 0>>, velocity |-> <<1, 0>>, rotation |-> 0,
       shape |-> Diamond],
      [position |-> <<326, 50>>, velocity |-> <<-1, 0>>, rotation |-> 1,
       shape |-> Diamond],
      [position |-> <<150, 300>>, velocity |-> <<-2, 1>>, rotation |-> 0,
       shape |-> Triangle] }

(***************************************************************************)
(* The state: the fields of CollisionSimulator that the engine uses, the   *)
(* locals of update_collisions that live across its drain loop, and the    *)
(* position of the frame (pc).  The write-only counters frame and         *)
(* frame_rate are left out.  `next_id` and `last` are ghosts: the id of    *)
(* the next spawned body, and what the last step did.                      *)
(***************************************************************************)
VARIABLES objects, time_elapsed, right_clicked, pc,
          collisions_pq, bounds, bounds_left_bt, bounds_right_bt,
          next_id, last

vars == <<objects, time_elapsed, right_clicked, pc,
          collisions_pq, bounds, bounds_left_bt, bounds_right_bt,
          next_id, last>>

NoInfo ==
    [ time |-> 0, object_1 |-> 0, object_1_col_stamp |-> 0, point_1 |-> 0,
      object_2 |-> 0, object_2_col_stamp |-> 0, line_2 |-> 0 ]

\* the ghost `last`: the step, the event it popped, the registry before it,
\* the ids update_objects dropped and the id it spawned (0: none)
Did(op, info, before, removed, spawned) ==
    [op |-> op, info |-> info, before |-> before, removed |-> removed,
     spawned |-> spawned]

\* CollisionSimulator::new (main.rs:68-83)
Init ==
    /\ objects = <<>>
    /\ time_elapsed = 0
    /\ right_clicked = FALSE
    /\ pc = "idle"
    /\ collisions_pq = <<>>
    /\ bounds = <<>>
    /\ bounds_left_bt = {}
    /\ bounds_right_bt = {}
    /\ next_id = 1
    /\ last = Did("new", NoInfo, <<>>, {}, 0)

\* input: the right mouse button is pressed or released (main.rs:119-130)
input ==
    /\ pc = "idle"
    /\ right_clicked' = ~right_clicked
    /\ last' = Did("input", NoInfo, objects, {}, 0)
    /\ UNCHANGED <<objects, time_elapsed, pc, collisions_pq, bounds,
                   bounds_left_bt, bounds_right_bt, next_id>>

\* the entry of body i in bounds: (min x, max x, i)
Entry(bound, i) == <<bound[1], bound[2], i>>

\* collisions_pq.push for Some(col_info), nothing for None
PushSome(pq, col) == IF col = None THEN pq ELSE Append(pq, col[1])

\* the events of one body against its candidates (main.rs:271-275, 302-306)
RECURSIVE PushChecks(_, _, _, _, _)
PushChecks(pq, objs, i, candidates, horizon) ==
    IF candidates = <<>> THEN pq
    ELSE The({PushChecks(PushSome(pq, col), objs, i, rest, horizon) :
                 col \in {check_collision(objs, i, Head(candidates), horizon)},
                 rest \in {Tail(candidates)}})

\* the bounds vector of the rebuild (main.rs:250-255)
Rebuild(objs, horizon) ==
    [i \in 1..Len(objs) |->
        The({Entry(bound, i) : bound \in {compute_x_bounds(objs[i], horizon)}})]

\* the seed loop (main.rs:260-276)
RECURSIVE Seed(_, _, _, _, _, _, _)
Seed(pq, objs, bnds, left_bt, right_bt, i, horizon) ==
    IF i > Len(objs) THEN pq
    ELSE Seed(PushChecks(pq, objs, i,
                         Candidates(left_bt, right_bt, bnds[i]), horizon),
              objs, bnds, left_bt, right_bt, i + 1, horizon)

\* App::update up to the drain loop: the clock advances, the broad phase is
\* rebuilt and the queue is seeded.  The rebuild advances a clone of every
\* body to time_elapsed, and Object::update asserts on the way.
update_collisions_seed ==
    /\ pc = "idle"
    /\ \E dt \in DtSet :
        \E horizon \in {time_elapsed + dt} :
            /\ horizon <= MaxTime
            /\ time_elapsed' = horizon
            /\ IF \E i \in 1..Len(objects) : ~UpdateAllowed(objects[i], horizon)
               THEN /\ pc' = "panicked"
                    /\ last' = Did("panic", NoInfo, objects, {}, 0)
                    /\ UNCHANGED <<collisions_pq, bounds, bounds_left_bt,
                                   bounds_right_bt>>
               ELSE \E bnds \in {Rebuild(objects, horizon)} :
                    \E left_bt \in {SeqToSet(bnds)} :
                    \E right_bt \in {{Mirror(b) : b \in left_bt}} :
                        /\ bounds' = bnds
                        /\ bounds_left_bt' = left_bt
                        /\ bounds_right_bt' = right_bt
                        /\ collisions_pq' =
                               Seed(<<>>, objects, bnds, left_bt, right_bt, 1,
                                    horizon)
                        /\ pc' = "drain"
                        /\ last' = Did("seed", NoInfo, objects, {}, 0)
    /\ UNCHANGED <<objects, right_clicked, next_id>>

\* mutant of PqMinIndex: the heap is not reversed, pop gives the greatest
PqMinIndex_Greatest(pq) ==
    CHOOSE k \in 1..Len(pq) :
        /\ \A m \in 1..Len(pq) : ~InfoLess(pq[k], pq[m])
        /\ \A m \in 1..(k - 1) : pq[m] # pq[k]

\* BinaryHeap::pop on Reverse<CollisionInfo>: the least element
PqMinIndex(pq) ==
    CHOOSE k \in 1..Len(pq) :
        /\ \A m \in 1..Len(pq) : ~InfoLess(pq[m], pq[k])
        /\ \A m \in 1..(k - 1) : pq[m] # pq[k]

\* mutant of PqWithout: the popped event stays in the heap
PqWithout_Kept(pq, k) == pq

PqWithout(pq, k) == SubSeq(pq, 1, k - 1) \o SubSeq(pq, k + 1, Len(pq))

\* mutant of ReseedWith: the old entry is removed from bounds_right_bt by
\* its unmirrored key, which is not in that set
ReseedWith_UnmirroredRemove(st, objs, i, horizon, new_bound) ==
    LET left_bt == (st.left \ {st.bounds[i]}) \cup {new_bound}
        right_bt == (st.right \ {st.bounds[i]}) \cup {Mirror(new_bound)}
    IN  [ bounds |-> [st.bounds EXCEPT ![i] = new_bound],
          left |-> left_bt,
          right |-> right_bt,
          pq |-> PushChecks(st.pq, objs, i,
                            Candidates(left_bt, right_bt, new_bound), horizon) ]

\* the re-seed of one resolved body once its new bound is computed
\* (main.rs:284-306): a record of the locals bounds, bounds_left_bt,
\* bounds_right_bt and collisions_pq
ReseedWith(st, objs, i, horizon, new_bound) ==
    LET left_bt == (st.left \ {st.bounds[i]}) \cup {new_bound}
        right_bt == (st.right \ {Mirror(st.bounds[i])})
                        \cup {Mirror(new_bound)}
    IN  [ bounds |-> [st.bounds EXCEPT ![i] = new_bound],
          left |-> left_bt,
          right |-> right_bt,
          pq |-> PushChecks(st.pq, objs, i,
                            Candidates(left_bt, right_bt, new_bound), horizon) ]

\* the re-seed of one resolved body (main.rs:281-306)
Reseed(st, objs, i, horizon) ==
    The({ReseedWith(st, objs, i, horizon, Entry(bound, i)) :
         bound \in {compute_x_bounds(objs[i], horizon)}})

\* one iteration of the drain loop (main.rs:278-309)
drain_step ==
    /\ pc = "drain"
    /\ collisions_pq # <<>>
    /\ \E k \in {PqMinIndex(collisions_pq)} :
       \E col_info \in {collisions_pq[k]} :
       \E rest \in {PqWithout(collisions_pq, k)} :
       \E res \in {handle_collision(objects, col_info)} :
           IF res[1]
           THEN \E st0 \in {[bounds |-> bounds, left |-> bounds_left_bt,
                              right |-> bounds_right_bt, pq |-> rest]} :
                \E st1 \in {Reseed(st0, res[2], col_info.object_1,
                                    time_elapsed)} :
                \E st2 \in {Reseed(st1, res[2], col_info.object_2,
                                    time_elapsed)} :
                    /\ objects' = res[2]
                    /\ bounds' = st2.bounds
                    /\ bounds_left_bt' = st2.left
                    /\ bounds_right_bt' = st2.right
                    /\ collisions_pq' = st2.pq
                    /\ last' = Did("resolved", col_info, objects, {}, 0)
           ELSE /\ objects' = res[2]
                /\ collisions_pq' = rest
                /\ last' = Did("stale", col_info, objects, {}, 0)
                /\ UNCHANGED <<bounds, bounds_left_bt, bounds_right_bt>>
    /\ UNCHANGED <<time_elapsed, right_clicked, pc, next_id>>

\* mutant of Active: a body is dropped when its count reaches the limit
Active_AtLimit(objs) ==
    LET f[k \in 0..Len(objs)] ==
            IF k = 0 THEN <<>>
            ELSE IF objs[k].collided >= CollidedLimit THEN f[k - 1]
            ELSE Append(f[k - 1], objs[k])
    IN  f[Len(objs)]

\* SelectSeq without a higher-order argument: the bodies update_objects keeps
Active(objs) ==
    LET f[k \in 0..Len(objs)] ==
            IF k = 0 THEN <<>>
            ELSE IF objs[k].collided > CollidedLimit THEN f[k - 1]
            ELSE Append(f[k - 1], objs[k])
    IN  f[Len(objs)]

\* the integration pass (main.rs:216-218)
Integrated(objs, now) ==
    [k \in 1..Len(objs) |-> Object_update(objs[k], now + TimeEps)]

Ids(objs) == {objs[k].id : k \in 1..Len(objs)}

\* the drain loop has ended; update_objects runs (main.rs:205-230).  The
\* bounds vector and the two sets are locals of update_collisions and go
\* out of scope.
update_objects ==
    /\ pc = "drain"
    /\ collisions_pq = <<>>
    /\ \E active_objects \in {Active(objects)} :
       \E moved \in {Integrated(active_objects, time_elapsed)} :
       \E removed \in {Ids(objects) \ Ids(active_objects)} :
           IF right_clicked
           THEN /\ Len(active_objects) < MaxObjects
                /\ \E req \in SpawnRequests :
                     objects' = Append(moved,
                         Object_new(next_id, req.position, req.velocity,
                                    req.rotation, req.shape))
                /\ next_id' = next_id + 1
                /\ last' = Did("objects", NoInfo, objects, removed, next_id)
           ELSE /\ objects' = moved
                /\ next_id' = next_id
                /\ last' = Did("objects", NoInfo, objects, removed, 0)
    /\ pc' = "idle"
    /\ bounds' = <<>>
    /\ bounds_left_bt' = {}
    /\ bounds_right_bt' = {}
    /\ UNCHANGED <<time_elapsed, right_clicked, collisions_pq>>

Next ==
    \/ input
    \/ update_collisions_seed
    \/ drain_step
    \/ update_objects

Spec == Init /\ [][Next]_vars

(***************************************************************************)
(* Helpers of the properties.                                              *)
(***************************************************************************)
Indices == 1..Len(objects)

\* the event the next iteration of the drain loop pops
NextPopped == collisions_pq[PqMinIndex(collisions_pq)]

\* closed intervals [a[1], a[2]] and [b[1], b[2]] share a point
Intersects(a, b) == a[1] <= b[2] /\ b[1] <= a[2]

\* the body with this id, in a registry that holds it
ById(objs, id) == objs[CHOOSE k \in 1..Len(objs) : objs[k].id = id]

Kinematics(o) == <<o.position, o.velocity, o.cur_time>>

(***************************************************************************)
(* C1.  A popped event whose object_1_col_stamp or object_2_col_stamp      *)
(* differs from the `updated` stamp of its body is not applied: the        *)
(* iteration leaves every body, the bounds vector, both index sets         *)
(* untouched and pushes nothing; the queue only loses the popped event.    *)
(***************************************************************************)
C1_StaleEventDiscarded ==
    [][ (pc = "drain" /\ collisions_pq # <<>>) =>
          LET ev == NextPopped
          IN  (\/ ev.object_1_col_stamp # objects[ev.object_1].updated
               \/ ev.object_2_col_stamp # objects[ev.object_2].updated)
              => /\ objects' = objects
                 /\ bounds' = bounds
                 /\ bounds_left_bt' = bounds_left_bt
                 /\ bounds_right_bt' = bounds_right_bt
                 /\ collisions_pq' =
                        PqWithout(collisions_pq, PqMinIndex(collisions_pq))
      ]_vars

\* a stale event was popped as the minimum of a queue, after a collision of
\* one of its bodies had been resolved in this frame
C1_Witness ==
    /\ last.op = "stale"
    /\ last.info.object_1_col_stamp # last.before[last.info.object_1].updated
    /\ objects[last.info.object_1].collided > 0
    /\ objects = last.before

C3_BoundsInSync ==
    pc = "drain" =>
        /\ Len(bounds) = Len(objects)
        /\ Cardinality(bounds_left_bt) = Len(objects)
        /\ Cardinality(bounds_right_bt) = Len(objects)
        /\ \A i \in Indices :
              /\ bounds[i][3] = i
              /\ {e \in bounds_left_bt : e[3] = i} = {bounds[i]}
              /\ {e \in bounds_right_bt : e[3] = i} = {Mirror(bounds[i])}

\* an incremental update has replaced the entries of two resolved bodies
C3_Witness ==
    /\ pc = "drain"
    /\ last.op = "resolved"
    /\ Len(objects) >= 2
    /\ bounds[last.info.object_1] \in bounds_left_bt

(***************************************************************************)
(* C4.  In every step, a body that stays in the registry keeps or raises   *)
(* its cur_time, and if the step changed its position, velocity or         *)
(* cur_time, its `updated` stamp is strictly greater after the step.       *)
(***************************************************************************)
C4_TimeAndStampMonotone ==
    [][ \A id \in Ids(objects) \cap Ids(objects') :
          LET o == ById(objects, id)
              n == ById(objects', id)
          IN  /\ n.cur_time >= o.cur_time
              /\ Kinematics(n) # Kinematics(o) => n.updated > o.updated
      ]_vars

\* a body that was integrated and then took part in a resolved collision
C4_Witness ==
    /\ last.op = "resolved"
    /\ \E k \in Indices :
          /\ objects[k].collided > 0
          /\ objects[k].updated >= 2
          /\ objects[k].cur_time > last.before[k].cur_time

(***************************************************************************)
(* C5.  After update_objects, every body that was not spawned by this      *)
(* frame has cur_time equal to time_elapsed.                               *)
(***************************************************************************)
C5_IntegratedToFrameTime ==
    (pc = "idle" /\ last.op = "objects") =>
        \A k \in Indices :
            objects[k].id # last.spawned => objects[k].cur_time = time_elapsed

(***************************************************************************)
(* C6.  A body spawned by a frame has cur_time equal to that frame's       *)
(* time_elapsed and `updated` stamp 0.                                     *)
(***************************************************************************)
C6_SpawnedAtFrameTime ==
    (pc = "idle" /\ last.op = "objects" /\ last.spawned # 0) =>
        /\ ById(objects, last.spawned).cur_time = time_elapsed
        /\ ById(objects, last.spawned).updated = 0

(***************************************************************************)
(* A registry late in a run: two bodies on a collision course, their       *)
(* collision counts near the limit, at a frame boundary.                   *)
(***************************************************************************)
AgedCounts == {0, 99, 100}

AgedBody(id, position, velocity, rotation, now, count) ==
    [Object_new(id, position, velocity, rotation, Diamond) EXCEPT
        !.cur_time = now + TimeEps,
        !.updated = count + 1,
        !.collided = count]

InitAged ==
    /\ time_elapsed = 80
    /\ \E c1 \in AgedCounts, c2 \in AgedCounts, rot \in {0, 1} :
          objects = << AgedBody(1, <<82, 0>>, <<1, 0>>, 0, 80, c1),
                       AgedBody(2, <<244, 50>>, <<-1, 0>>, rot, 80, c2) >>
    /\ right_clicked \in BOOLEAN
    /\ pc = "idle"
    /\ collisions_pq = <<>>
    /\ bounds = <<>>
    /\ bounds_left_bt = {}
    /\ bounds_right_bt = {}
    /\ next_id = 3
    /\ last = Did("new", NoInfo, <<>>, {}, 0)

SpecAged == InitAged /\ [][Next]_vars

(***************************************************************************)
(* C7.  A resolved collision adds exactly 1 to the collision count of each *)
(* of its two bodies; update_objects drops exactly the bodies whose count  *)
(* exceeds 100; no other step removes a body.                              *)
(***************************************************************************)
C7_CountAndRemoval ==
    [][ /\ (pc = "drain" /\ last'.op = "resolved") =>
              \A k \in Indices :
                  objects'[k].collided =
                      IF k \in {last'.info.object_1, last'.info.object_2}
                      THEN objects[k].collided + 1
                      ELSE objects[k].collided
        /\ (pc = "drain" /\ pc' = "idle") =>
              Ids(objects') \ {last'.spawned} =
                  {objects[k].id : k \in {m \in Indices :
                                            objects[m].collided <= 100}}
        /\ ~(pc = "drain" /\ pc' = "idle") => Ids(objects') = Ids(objects)
      ]_vars

\* update_objects dropped a body whose count had passed 100 and kept one
\* whose count was exactly 100
C7_Witness ==
    /\ last.op = "objects"
    /\ last.removed # {}
    /\ \E k \in 1..Len(last.before) : last.before[k].collided = 101
    /\ \E k \in Indices : objects[k].collided = 100

(***************************************************************************)
(* The impulse of handle_collision as a function of its inputs: two bodies *)
(* and one valid event between them.  Velocities are multiples of 1500 and *)
(* struck edges have whole lengths, so that no quotient is rounded.        *)
(***************************************************************************)
Masses == {1, 2, 3}
Speeds == {-1500, 0, 1500}
\* a square whose sides have length 100 and slopes 3/4 and -4/3
Tilted == << <<70, 10>>, <<-10, 70>>, <<-70, -10>>, <<10, -70>> >>

ImpulseBody(id, position, velocity, mass, shape) ==
    [Object_new(id, position, velocity, 0, shape) EXCEPT !.mass = mass]

InitImpulse ==
    /\ time_elapsed = 10
    /\ \E m1 \in Masses, m2 \in Masses, shape \in {Diamond, Tilted},
          v1 \in Speeds \X Speeds, v2 \in Speeds \X Speeds :
          objects = << ImpulseBody(1, <<0, 0>>, v1, m1, Diamond),
                       ImpulseBody(2, <<300, 0>>, v2, m2, shape) >>
    /\ \E line_2 \in 1..4 :
          collisions_pq = << [NoInfo EXCEPT !.time = 5, !.object_1 = 1,
                                            !.point_1 = 1, !.object_2 = 2,
                                            !.line_2 = line_2] >>
    /\ right_clicked = FALSE
    /\ pc = "impulse"
    /\ bounds = <<>>
    /\ bounds_left_bt = {}
    /\ bounds_right_bt = {}
    /\ next_id = 3
    /\ last = Did("new", NoInfo, <<>>, {}, 0)

\* handle_collision applied to the event
impulse_step ==
    /\ pc = "impulse"
    /\ LET res == handle_collision(objects, collisions_pq[1])
       IN  /\ objects' = res[2]
           /\ last' = Did(IF res[1] THEN "resolved" ELSE "stale",
                          collisions_pq[1], objects, {}, 0)
    /\ collisions_pq' = <<>>
    /\ pc' = "impulse_done"
    /\ UNCHANGED <<time_elapsed, right_clicked, bounds, bounds_left_bt,
                   bounds_right_bt, next_id>>

SpecImpulse == InitImpulse /\ [][impulse_step]_vars

\* the two bodies of the event have equal mass, opposite velocities, and
\* move along the normal of the struck edge
HeadOn(objs, col_info) ==
    LET a == objs[col_info.object_1]
        b == objs[col_info.object_2]
    IN  /\ a.mass = b.mass
        /\ a.velocity # ZERO
        /\ b.velocity = VNeg(a.velocity)
        /\ PerpDot(a.velocity, EdgePerp(b, col_info.line_2)) = 0

(***************************************************************************)
(* C8.  When a resolved event is between two bodies of equal mass that     *)
(* move along the contact normal with opposite velocities, each body's     *)
(* velocity after the step is the negation of its velocity before.         *)
(***************************************************************************)
C8_HeadOnReverses ==
    (last.op = "resolved" /\ HeadOn(last.before, last.info)) =>
        \A k \in {last.info.object_1, last.info.object_2} :
            objects[k].velocity = VNeg(last.before[k].velocity)

C8_Witness ==
    /\ last.op = "resolved"
    /\ HeadOn(last.before, last.info)
    /\ objects[1].velocity = VNeg(last.before[1].velocity)

(***************************************************************************)
(* C9.  total_energy is the same before and after a resolved collision,    *)
(* whatever the masses and the incoming velocities.                        *)
(***************************************************************************)
C9_EnergyConserved ==
    last.op = "resolved" => total_energy(objects) = total_energy(last.before)

\* a collision between bodies of different mass that changed both velocities
C9_Witness ==
    /\ last.op = "resolved"
    /\ objects[1].mass # objects[2].mass
    /\ objects[1].velocity # last.before[1].velocity
    /\ objects[2].velocity # last.before[2].velocity
    /\ total_energy(objects) > 0

(***************************************************************************)
(* C10.  check_collision accepts a root whose time t satisfies             *)
(* current_time < t <= time_elapsed, and returns the least accepted event: *)
(* it agrees with the search whose window is closed at time_elapsed.  On   *)
(* the lattice t <= time_elapsed is t < time_elapsed + 1.                  *)
(***************************************************************************)
ClosedAt(horizon) == horizon + 1

C10_WindowClosedAtHorizon ==
    pc = "drain" =>
        \A i \in Indices : \A j \in Indices :
            check_collision(objects, i, j, time_elapsed) =
                check_collision(objects, i, j, ClosedAt(time_elapsed))

(***************************************************************************)
(* C11.  Object::update with target_time < cur_time aborts before any      *)
(* field is written: a frame whose time_elapsed lies before the cur_time   *)
(* of a body stops in the rebuild with the registry, the queue and the     *)
(* index as they were, and the program takes no further step.              *)
(***************************************************************************)
C11_BackwardUpdateAborts ==
    [][ /\ (/\ pc = "idle"
            /\ time_elapsed' # time_elapsed
            /\ \E k \in Indices : time_elapsed' < objects[k].cur_time)
           => /\ pc' = "panicked"
              /\ objects' = objects
              /\ collisions_pq' = collisions_pq
              /\ bounds' = bounds
              /\ bounds_left_bt' = bounds_left_bt
              /\ bounds_right_bt' = bounds_right_bt
        /\ pc = "panicked" => UNCHANGED <<objects, pc, time_elapsed>>
      ]_vars

\* the assertion has failed on a body that had been integrated past the
\* frame's time_elapsed, and the body is as it was
C11_Witness ==
    /\ pc = "panicked"
    /\ \E k \in Indices :
          /\ objects[k].cur_time > time_elapsed
          /\ objects[k].updated > 0
          /\ objects[k] = last.before[k]

(***************************************************************************)
(* C20.  Whatever the frame times dt > 0, no call of Object::update has    *)
(* target_time < cur_time: the assertion never fails.                      *)
(***************************************************************************)
C20_AssertionNeverReached == pc # "panicked"

(***************************************************************************)
(* convex_hull as a function of its input: every sequence of HullLens      *)
(* points of the grid 0..GridWidth x 0..2, duplicates and collinear points *)
(* included.  The input is kept in last.before and the result in bounds.   *)
(***************************************************************************)
GridWidth == 2
HullLens == {3, 4, 5}
Grid == (0..GridWidth) \X (0..2)

InitHull ==
    /\ objects = <<>>
    /\ time_elapsed = 0
    /\ right_clicked = FALSE
    /\ pc = "hull"
    /\ collisions_pq = <<>>
    /\ bounds = <<>>
    /\ bounds_left_bt = {}
    /\ bounds_right_bt = {}
    /\ next_id = 1
    /\ \E n \in HullLens : \E points \in [1..n -> Grid] :
          last = Did("points", NoInfo, points, {}, 0)

\* convex_hull applied to the input
hull_step ==
    /\ pc = "hull"
    /\ bounds' = convex_hull(last.before)
    /\ last' = Did("convex_hull", NoInfo, last.before, {}, 0)
    /\ pc' = "hull_done"
    /\ UNCHANGED <<objects, time_elapsed, right_clicked, collisions_pq,
                   bounds_left_bt, bounds_right_bt, next_id>>

SpecHull == InitHull /\ [][hull_step]_vars

\* some three of the points are not on one line
NotAllCollinear(points) ==
    \E i, j, k \in 1..Len(points) :
        PerpDot(VSub(points[j], points[i]), VSub(points[k], points[i])) # 0

\* the sequence s with its elements k and k + 1 exchanged
Swapped(s, k) == [s EXCEPT ![k] = s[k + 1], ![k + 1] = s[k]]

\* the successor of index k on a closed polygon of n vertices
Succ(k, n) == (k % n) + 1

(***************************************************************************)
(* C13.  For at least 3 points not all on one line, the result of          *)
(* convex_hull starts at the lowest, then leftmost point, turns strictly   *)
(* left at every vertex (counter-clockwise, no duplicate, no vertex on the *)
(* segment between two others), holds only input points, has every input   *)
(* point on or inside it, and is the same for the input with two           *)
(* neighbouring elements exchanged (every sequence being an input, this is *)
(* independence of the input order).                                       *)
(***************************************************************************)
C13_HullIsMinimalPolygon ==
    (pc = "hull_done" /\ NotAllCollinear(last.before)) =>
        LET points == last.before
            hull == bounds
            n == Len(hull)
        IN  /\ n >= 3
            /\ \A q \in SeqToSet(points) :
                   hull[1] = q \/ YXLess(hull[1], q)
            /\ SeqToSet(hull) \subseteq SeqToSet(points)
            /\ \A k \in 1..n :
                   PerpDot(VSub(hull[Succ(k, n)], hull[k]),
                           VSub(hull[Succ(Succ(k, n), n)], hull[k])) > 0
            /\ \A k \in 1..n : \A q \in SeqToSet(points) :
                   PerpDot(VSub(hull[Succ(k, n)], hull[k]),
                           VSub(q, hull[k])) >= 0
            /\ \A k \in 1..(Len(points) - 1) :
                   convex_hull(Swapped(points, k)) = hull

\* an input with a duplicate and a point on an edge of the hull, its first
\* element not the lowest point
C13_Witness ==
    /\ pc = "hull_done"
    /\ Len(last.before) = 5
    /\ Cardinality(SeqToSet(last.before)) = 4
    /\ last.before[1] # bounds[1]
    /\ bounds = << <<0, 0>>, <<2, 0>>, <<0, 2>> >>
    /\ <<1, 1>> \in SeqToSet(last.before)

(***************************************************************************)
(* check_collision as a function of its inputs: a diamond (the sharp body) *)
(* and a second body, with velocities that are equal, parallel to an edge  *)
(* of the second body, vertical, or none of these, and a short or a long   *)
(* frame.  The result is pushed to collisions_pq as the seed loop does.    *)
(***************************************************************************)
CheckVelocities ==
    {<<0, 0>>, <<2, 0>>, <<-2, 0>>, <<0, 2>>, <<2, 2>>, <<2, -2>>, <<3, 1>>}
CheckShapes == {Diamond, AxisSquare, Tilted}
CheckPositions == {<<250, 0>>, <<250, 50>>, <<150, 250>>, <<0, 250>>}
CheckHorizons == {10, 60}

InitCheck ==
    /\ \E v1 \in CheckVelocities, v2 \in {<<0, 0>>, <<2, 0>>},
          shape \in CheckShapes, position \in CheckPositions,
          now \in {0, 2} :
          objects = << Object_new(1, <<0, 0>>, v1, 0, Diamond),
                       [Object_new(2, position, v2, 0, shape)
                            EXCEPT !.cur_time = now] >>
    /\ time_elapsed \in CheckHorizons
    /\ right_clicked = FALSE
    /\ pc = "check"
    /\ collisions_pq = <<>>
    /\ bounds = <<>>
    /\ bounds_left_bt = {}
    /\ bounds_right_bt = {}
    /\ next_id = 3
    /\ last = Did("new", NoInfo, <<>>, {}, 0)

\* check_collision(0, 1), its result pushed if it is Some
check_step ==
    /\ pc = "check"
    /\ collisions_pq' =
           PushSome(<<>>, check_collision(objects, 1, 2, time_elapsed))
    /\ last' = Did("check", NoInfo, objects, {}, 0)
    /\ pc' = "check_done"
    /\ UNCHANGED <<objects, time_elapsed, right_clicked, bounds,
                   bounds_left_bt, bounds_right_bt, next_id>>

SpecCheck == InitCheck /\ [][check_step]_vars

\* the later of the two bodies' times, and a vertex of a body at that time
LaterTime == Max2(objects[1].cur_time, objects[2].cur_time)

VertexAt(o, k) ==
    VAdd(rotate_rad(o.shape[k], o.rotation),
         VAdd(o.position, VScale(o.velocity, LaterTime - o.cur_time)))

RelVelocity == VSub(objects[1].velocity, objects[2].velocity)

\* the end of edge j of the second body
EdgeEnd(j) == VertexAt(objects[2], Succ(j, Len(objects[2].shape)))

\* vertex i of the first body moves parallel to edge j of the second (a
\* zero relative velocity included)
MovesParallel(j) ==
    PerpDot(RelVelocity, VSub(EdgeEnd(j), VertexAt(objects[2], j))) = 0

\* the vertex meets the line of the edge after the time num / den; the
\* root scaled by |den| is RootScaled
RootDen(j) == PerpDot(RelVelocity, VSub(EdgeEnd(j), VertexAt(objects[2], j)))

RootScaled(i, j) ==
    PerpDot(VSub(VertexAt(objects[2], j), VertexAt(objects[1], i)),
            VSub(EdgeEnd(j), VertexAt(objects[2], j))) * Sgn(RootDen(j))

\* the root lies at least one lattice unit outside the time window
RootOutsideWindow(i, j) ==
    \/ RootScaled(i, j) <= -1 * Abs(RootDen(j))
    \/ RootScaled(i, j) >= (time_elapsed - LaterTime + 1) * Abs(RootDen(j))

\* the x of the root lies at least one lattice unit outside the edge
RootOutsideEdge(i, j) ==
    LET a == VertexAt(objects[2], j)
        b == EdgeEnd(j)
        p == VertexAt(objects[1], i)
        \* (x - c) * |den| for the x of the root
        over(c) == (p[1] - c) * Abs(RootDen(j))
                       + RelVelocity[1] * RootScaled(i, j)
    IN  \/ over(Min2(a[1], b[1]) - 1) < 0
        \/ over(Max2(a[1], b[1]) + 1) > 0

Degenerate(i, j) ==
    \/ RelVelocity = ZERO
    \/ MovesParallel(j)
    \/ RootOutsideWindow(i, j)
    \/ RootOutsideEdge(i, j)

(***************************************************************************)
(* C19.  A (vertex, edge) pair whose relative velocity is zero, whose      *)
(* vertex moves parallel to the edge, or whose root lies outside the       *)
(* edge's x-bounds or outside the time window yields None in the closure   *)
(* `check`; check_collision completes, the event it returns is of no such  *)
(* pair, and nothing is pushed when every pair is one.                     *)
(***************************************************************************)
C19_DegeneraciesYieldNone ==
    pc = "check_done" =>
        LET vertices == 1..Len(objects[1].shape)
            edges == 1..Len(objects[2].shape)
        IN  /\ \A i \in vertices : \A j \in edges :
                   Degenerate(i, j) =>
                       check(VertexAt(objects[1], i), RelVelocity,
                             VertexAt(objects[2], j), EdgeEnd(j),
                             LaterTime, time_elapsed) = None
            /\ Len(collisions_pq) <= 1
            /\ collisions_pq # <<>> =>
                   ~Degenerate(collisions_pq[1].point_1,
                               collisions_pq[1].line_2)

\* a call in which a vertex would meet an edge after the frame has ended,
\* and nothing was pushed
C19_Witness ==
    /\ pc = "check_done"
    /\ collisions_pq = <<>>
    /\ RelVelocity # ZERO
    /\ \E i \in 1..4 : \E j \in 1..4 :
          /\ ~MovesParallel(j)
          /\ ~RootOutsideEdge(i, j)
          /\ RootOutsideWindow(i, j)
          /\ RootScaled(i, j) > 0

(***************************************************************************)
(* Registries set up before the first frame, as an end-to-end test of the  *)
(* engine does: bodies of Object::new, the clock at 0.                     *)
(*   duel    two squares with sides parallel to the axes, head-on along x  *)
(*           with closing speed 2; their facing sides meet at DuelContact  *)
(*   contain a fast diamond whose swept X-interval contains that of a      *)
(*           diamond at rest in its way                                    *)
(*   trio    two diamonds that collide, and a triangle whose lowest vertex *)
(*           comes down on an edge of one of them afterwards               *)
(***************************************************************************)
DuelContact == 50

Duel ==
    << Object_new(1, <<0, 0>>, <<1, 0>>, 0, AxisSquare),
       Object_new(2, <<242, 0>>, <<-1, 0>>, 0, AxisSquare) >>

Contain ==
    << Object_new(1, <<0, 0>>, <<0, 0>>, 0, Diamond),
       Object_new(2, <<-400, 50>>, <<12, 0>>, 0, Diamond) >>

Trio ==
    << Object_new(1, <<0, 0>>, <<4, 0>>, 0, Diamond),
       Object_new(2, <<326, 50>>, <<-4, 0>>, 0, Diamond),
       Object_new(3, <<359, 311>>, <<-2, -2>>, 3, Triangle) >>

Scenes == {Duel, Contain, Trio}

InitScene ==
    /\ objects \in Scenes
    /\ time_elapsed = 0
    /\ right_clicked = FALSE
    /\ pc = "idle"
    /\ collisions_pq = <<>>
    /\ bounds = <<>>
    /\ bounds_left_bt = {}
    /\ bounds_right_bt = {}
    /\ next_id = Len(objects) + 1
    /\ last = Did("new", NoInfo, <<>>, {}, 0)

SpecScene == InitScene /\ [][Next]_vars

\* the registry is the duel and nothing was spawned into it
IsDuel ==
    /\ next_id = 3
    /\ Len(objects) = 2
    /\ \A k \in 1..2 : objects[k].shape = AxisSquare

(***************************************************************************)
(* C12.  Two unit-mass squares alone in the registry, head-on with closing *)
(* speed 2: a collision between them is resolved only at the time their    *)
(* sides meet, and once a frame has ended after that time each has         *)
(* collided exactly once and they have exchanged their velocities.  The    *)
(* struck side is vertical here.                                           *)
(***************************************************************************)
C12_HeadOnSquaresCollideOnce ==
    IsDuel =>
        /\ last.op = "resolved" => last.info.time = DuelContact
        /\ (pc = "idle" /\ last.op = "objects" /\ time_elapsed > DuelContact)
              => /\ \A k \in 1..2 : objects[k].collided = 1
                 /\ objects[1].velocity = Duel[2].velocity
                 /\ objects[2].velocity = Duel[1].velocity

\* the events of the narrow phase between x and c in both directions
EventsBetween(x, c) ==
    {check_collision(objects, pair[1], pair[2], time_elapsed) :
        pair \in {<<x, c>>, <<c, x>>}} \ {None}

(***************************************************************************)
(* C14.  After a resolved collision, for each of its two bodies x and each *)
(* body c whose X-interval overlaps that of x, the events 'vertex of x     *)
(* into edge of c' and 'vertex of c into edge of x' that exist with the    *)
(* current stamps are in the queue.                                        *)
(***************************************************************************)
C14_ReseedBothDirections ==
    (pc = "drain" /\ last.op = "resolved") =>
        \A x \in {last.info.object_1, last.info.object_2} :
        \A c \in Indices \ {x} :
            Intersects(bounds[x], bounds[c]) =>
                \A e \in EventsBetween(x, c) : e[1] \in SeqToSet(collisions_pq)

(***************************************************************************)
(* C15.  Right after the seed, for every two bodies whose swept            *)
(* X-intervals overlap, the events of check_collision in both directions   *)
(* are in the queue.                                                       *)
(***************************************************************************)
C15_SeedBothDirections ==
    (pc = "drain" /\ last.op = "seed") =>
        \A i \in Indices : \A j \in Indices \ {i} :
            Intersects(bounds[i], bounds[j]) =>
                \A e \in EventsBetween(i, j) : e[1] \in SeqToSet(collisions_pq)

Popped == {"resolved", "stale"}

(***************************************************************************)
(* C16.  Within a frame the events leave the queue in non-decreasing order *)
(* of time, the resolved ones among them, and the time of a resolved event *)
(* is greater than the cur_time each of its two bodies had before.         *)
(***************************************************************************)
C16_ResolvedInTimeOrder ==
    [][ /\ (pc = "drain" /\ last.op \in Popped /\ last'.op \in Popped)
              => last'.info.time >= last.info.time
        /\ (pc = "drain" /\ last'.op = "resolved") =>
              /\ last'.info.time > objects[last'.info.object_1].cur_time
              /\ last'.info.time > objects[last'.info.object_2].cur_time
      ]_vars

\* a body that was never integrated (every change of its stamp was a
\* collision) takes part in a second resolved collision, later in the frame
C16_Witness ==
    /\ last.op = "resolved"
    /\ \E k \in {last.info.object_1, last.info.object_2} :
          /\ last.before[k].collided = 1
          /\ last.before[k].updated = 1
          /\ last.before[k].cur_time < last.info.time

(***************************************************************************)
(* C17.  A resolved event leaves both its bodies at the event's time and   *)
(* every other body of the registry as it was.                             *)
(***************************************************************************)
C17_OnlyTwoBodiesAdvance ==
    [][ (pc = "drain" /\ last'.op = "resolved") =>
           /\ objects'[last'.info.object_1].cur_time = last'.info.time
           /\ objects'[last'.info.object_2].cur_time = last'.info.time
           /\ \A k \in Indices \ {last'.info.object_1, last'.info.object_2} :
                 objects'[k] = objects[k]
      ]_vars

\* a collision was resolved while a third body, behind the frame's other
\* bodies in time, stood by
C17_Witness ==
    /\ last.op = "resolved"
    /\ Len(objects) = 3
    /\ \E k \in Indices \ {last.info.object_1, last.info.object_2} :
          /\ objects[k] = last.before[k]
          /\ objects[k].cur_time < last.info.time

(***************************************************************************)
(* The drain loop runs on: `while let Some(..) = collisions_pq.pop()`.     *)
(***************************************************************************)
SpecSceneLive == InitScene /\ [][Next]_vars /\ WF_vars(drain_step)

(***************************************************************************)
(* C18.  The drain loop of a frame ends: the queue becomes empty.          *)
(***************************************************************************)
C18_DrainTerminates == (pc = "drain") ~> (collisions_pq = <<>>)

\* in the middle of a drain: a resolved collision has pushed new events
C18_Witness ==
    /\ pc = "drain"
    /\ last.op = "resolved"
    /\ \E k \in 1..Len(collisions_pq) :
          collisions_pq[k].time > last.info.time

\* the range queries of body i list i itself (main.rs:264-269)
OwnCandidate(i) ==
    i \in SeqToSet(Candidates(bounds_left_bt, bounds_right_bt, bounds[i]))

(***************************************************************************)
(* C21.  No event of a body with itself: no queued event and no popped     *)
(* event has object_1 = object_2, and check_collision(i, i) is None for    *)
(* every body i of the registry, whatever the horizon of the frame.        *)
(***************************************************************************)
C21_NoSelfCollision ==
    /\ \A k \in 1..Len(collisions_pq) :
          collisions_pq[k].object_1 # collisions_pq[k].object_2
    /\ last.op \in Popped => last.info.object_1 # last.info.object_2
    /\ \A i \in Indices : \A horizon \in {time_elapsed, MaxTime} :
          check_collision(objects, i, i, horizon) = None

\* the seed has run the narrow phase of a moving body against itself, the
\* body being among its own candidates, and has queued an event besides
C21_Witness ==
    /\ pc = "drain"
    /\ last.op = "seed"
    /\ collisions_pq # <<>>
    /\ \E i \in Indices :
          /\ OwnCandidate(i)
          /\ objects[i].velocity # ZERO

=============================================================================
